---------------------------- MODULE Spec2Model ----------------------------
(***************************************************************************)
(* Model of the SDF text core of gpu-accelerated-sdf-text:                 *)
(*   - TextRenderer (src/metal/lib/text_renderer.cpp): the per-frame       *)
(*     layout cache beginLayouting / addText / endLayouting / render;      *)
(*   - GlyphSet (src/metal/lib/glyph_set.hpp): the atlas packer;           *)
(*   - GlyphTexture::generate (src/metal/lib/glyph_texture.cpp): the       *)
(*     chunked submission of the indirect command buffer.                  *)
(*                                                                         *)
(* Floats are modelled as exact rationals extended with +inf, -inf and NaN *)
(* (IEEE-754 results of a division by zero); rounding and the sign of zero *)
(* are not modelled.                                                       *)
(***************************************************************************)
EXTENDS Integers, Sequences, FiniteSets, TLC

VARIABLES
  \* ---- TextRenderer (text_renderer.hpp) ----
  m_screenGlyphs,          \* std::vector<Glyph>: the pending quads
  m_screenGlyphsHash,      \* size_t: running fingerprint of this pass
  m_prevScreenGlyphsHash,  \* size_t: fingerprint of the previous pass
  m_glyphBufferSize,       \* uint32_t: capacity of the instance buffer, in quads
  m_glyphBuffer,           \* the records of the instance buffer written so far
                           \* (records past Len are uninitialised memory)
  \* ---- the caller, Renderer::renderFrame ----
  pc,                      \* "idle" | "layouting" | "ended" | "aborted"
  calls,                   \* the addText requests of this pass, in call order
  prevCalls,               \* the addText requests of the previous pass
  \* ---- observable effects ----
  lastAdd,                 \* locals of the last addText call
  lastEnd,                 \* what the last endLayouting did
  drawn,                   \* instance count of the last draw call
  \* ---- GlyphSet::packGlyphsToAtlas ----
  pk,
  \* ---- GlyphTexture::generate, submission loop ----
  sub,
  \* ---- GlyphTexture::generate, the whole call ----
  gen,
  \* ---- the reduction of one work item of the first pass ----
  red

vars == <<m_screenGlyphs, m_screenGlyphsHash, m_prevScreenGlyphsHash,
          m_glyphBufferSize, m_glyphBuffer, pc, calls, prevCalls,
          lastAdd, lastEnd, drawn, pk, sub, gen, red>>

layoutVars == <<m_screenGlyphs, m_screenGlyphsHash, m_prevScreenGlyphsHash,
                m_glyphBufferSize, m_glyphBuffer, pc, calls, prevCalls,
                lastAdd, lastEnd, drawn>>

-----------------------------------------------------------------------------
(* Floats: a rational n/d with d > 0 in lowest terms, or d = 0 for the     *)
(* special values: 1/0 is +inf, -1/0 is -inf, 0/0 is NaN.                  *)

RECURSIVE Gcd(_, _)
Gcd(a, b) == IF b = 0 THEN a ELSE Gcd(b, a % b)

Abs(a) == IF a < 0 THEN -a ELSE a

Sign(a) == IF a < 0 THEN -1 ELSE IF a > 0 THEN 1 ELSE 0

FReduce(n, d, g) == [n |-> Sign(d) * (n \div g), d |-> Abs(d) \div g]

F(n, d) ==
  IF d = 0 THEN [n |-> Sign(n), d |-> 0]
  ELSE FReduce(n, d, Gcd(Abs(n), Abs(d)))

I2F(i) == [n |-> i, d |-> 1]

FNaN == [n |-> 0, d |-> 0]
FInf == [n |-> 1, d |-> 0]

IsNaN(a) == a.d = 0 /\ a.n = 0
IsInf(a) == a.d = 0 /\ a.n # 0
IsFinite(a) == a.d # 0

FNeg(a) == [n |-> -a.n, d |-> a.d]

FMul(a, b) == F(a.n * b.n, a.d * b.d)

FAdd(a, b) ==
  IF IsInf(a) /\ IsInf(b) THEN (IF a.n = b.n THEN a ELSE FNaN)
  ELSE F(a.n * b.d + b.n * a.d, a.d * b.d)

FSub(a, b) == FAdd(a, FNeg(b))

\* a / b, IEEE-754: x/0 is +-inf for x # 0, 0/0 and inf/inf are NaN.
FDiv(a, b) == F(a.n * b.d, a.d * b.n)

\* a < b; false when either is NaN.
FLess(a, b) ==
  IF IsNaN(a) \/ IsNaN(b) THEN FALSE
  ELSE IF IsInf(a) \/ IsInf(b)
       THEN (IsInf(a) /\ a.n < 0 /\ ~(IsInf(b) /\ b.n < 0))
            \/ (IsInf(b) /\ b.n > 0 /\ ~(IsInf(a) /\ a.n > 0))
       ELSE a.n * b.d < b.n * a.d

\* std::min(a, b) is (b < a) ? b : a; std::max(a, b) is (a < b) ? b : a.
FMin(a, b) == IF FLess(b, a) THEN b ELSE a
FMax(a, b) == IF FLess(a, b) THEN b ELSE a

FHalf == F(1, 2)
FZero == I2F(0)


-----------------------------------------------------------------------------
(* Bounds of the model.                                                    *)

\* addText calls per layout pass.
MaxTexts == 2

\* Width of the fingerprint in bits (size_t in the source).
HashBits == 16

-----------------------------------------------------------------------------
(* Glyph sets handed to addText (glyph_set.hpp).  A glyph record holds the  *)
(* fields of GlyphSet::GlyphData that the layout reads.                     *)

kBorderInPixels == 4

GlyphData(adv, off, size, pixelSize, posInAtlas) ==
  [m_advance |-> I2F(adv),
   m_offset |-> <<I2F(off[1]), I2F(off[2])>>,
   m_size |-> <<I2F(size[1]), I2F(size[2])>>,
   m_pixelSize |-> pixelSize,
   m_posInAtlas |-> posInAtlas]

\* Code points used by the texts: ' ', '?', 'a', 'b'.
kSpace == 32

\* Two glyph sets: the first holds ' ', 'a' and 'b'; the second, of a
\* smaller font in a smaller atlas, holds ' ' and 'a' only.
GlyphSets ==
  << [m_glyphs |-> (32 :> GlyphData(6, <<0, 0>>, <<0, 0>>, <<8, 8>>, <<0, 0>>)
                 @@ 97 :> GlyphData(10, <<1, 0>>, <<8, 12>>, <<16, 20>>, <<8, 0>>)
                 @@ 98 :> GlyphData(12, <<1, 0>>, <<8, 16>>, <<16, 24>>, <<24, 0>>)),
      m_atlasSize |-> <<64, 64>>],
     [m_glyphs |-> (32 :> GlyphData(3, <<0, 0>>, <<0, 0>>, <<8, 8>>, <<0, 0>>)
                 @@ 97 :> GlyphData(5, <<1, 1>>, <<4, 6>>, <<12, 14>>, <<8, 0>>)),
      m_atlasSize |-> <<32, 32>>] >>

getGlyphs(glyphSet) == GlyphSets[glyphSet].m_glyphs
getAtlasSize(glyphSet) == GlyphSets[glyphSet].m_atlasSize

-----------------------------------------------------------------------------
(* The fingerprint: utils::hashCombine folds a value into the seed.         *)

HashMod == 2 ^ HashBits

RECURSIVE BitXor(_, _)
BitXor(a, b) ==
  IF a = 0 THEN b
  ELSE IF b = 0 THEN a
  ELSE (((a % 2) + (b % 2)) % 2) + 2 * BitXor(a \div 2, b \div 2)

\* The golden-ratio constant of the combiner, cut to 16 bits (0x9e37).
kHashMagic == 40503

\* std::hash<float>: equal values hash equal.
StdHashFloat(f) == ((f.n % HashMod) * 31 + f.d) % HashMod

\* std::hash<std::string>: a polynomial over the characters lo..hi, from h
\* (h is evaluated before the characters are visited).
RECURSIVE StdHashString(_, _, _, _)
StdHashString(s, lo, hi, h) ==
  IF h < 0 \/ lo > hi THEN h
  ELSE IF lo = hi THEN (h * 131 + s[lo] + 1) % HashMod
  ELSE LET mid == (lo + hi) \div 2
       IN  StdHashString(s, mid + 1, hi, StdHashString(s, lo, mid, h))

\* seed ^= hasher(v) + 0x9e3779b9 + (seed << 6) + (seed >> 2), on HashBits bits.
hashCombineMix(seed, hv) ==
  BitXor(seed, (hv + kHashMagic + ((seed * 64) % HashMod) + (seed \div 4)) % HashMod)

hashCombine(seed, v) == hashCombineMix(seed, StdHashFloat(v))

hashCombineString(seed, s) ==
  hashCombineMix(seed, StdHashString(s, 1, Len(s), 5381 % HashMod))


-----------------------------------------------------------------------------
(* TextRenderer::addText: glyph lookup and placement.  Values that are used *)
(* more than once are handed on as operator arguments.                      *)

\* glyphs.end()
NoGlyph == -1

\* it = glyphs.find(s[i]); if (it == glyphs.end()) it = glyphs.find(' ');
findGlyphNoFallback(glyphSet, c) ==
  IF c \in DOMAIN getGlyphs(glyphSet) THEN c ELSE NoGlyph

findGlyph(glyphSet, c) ==
  IF c \in DOMAIN getGlyphs(glyphSet) THEN c
  ELSE IF kSpace \in DOMAIN getGlyphs(glyphSet) THEN kSpace
  ELSE NoGlyph

\* The quad g of one character, in the local space of the call.
GlyphQuad(glyphData, atlasSize, halfSize, uvHalfSize, offsetX, color) ==
  [halfSize |-> halfSize,
   center |-> <<FAdd(FAdd(offsetX, glyphData.m_offset[1]), halfSize[1]),
                FAdd(FAdd(FZero, glyphData.m_offset[2]), halfSize[2])>>,
   uvCenter |-> <<FAdd(FDiv(I2F(glyphData.m_posInAtlas[1]), atlasSize[1]), uvHalfSize[1]),
                  FAdd(FDiv(I2F(glyphData.m_posInAtlas[2]), atlasSize[2]), uvHalfSize[2])>>,
   uvHalfSize |-> <<FSub(uvHalfSize[1], FDiv(I2F(kBorderInPixels), atlasSize[1])),
                    FSub(uvHalfSize[2], FDiv(I2F(kBorderInPixels), atlasSize[2]))>>,
   color |-> color]

UvHalfSize(glyphData, atlasSize) ==
  <<FDiv(FMul(I2F(glyphData.m_pixelSize[1]), FHalf), atlasSize[1]),
    FDiv(FMul(I2F(glyphData.m_pixelSize[2]), FHalf), atlasSize[2])>>

MakeGlyphIn(glyphData, atlasSize, offsetX, color) ==
  GlyphQuad(glyphData, atlasSize,
            <<FMul(glyphData.m_size[1], FHalf), FMul(glyphData.m_size[2], FHalf)>>,
            UvHalfSize(glyphData, atlasSize), offsetX, color)

MakeGlyph(glyphSet, glyphData, offsetX, color) ==
  MakeGlyphIn(glyphData,
              <<I2F(getAtlasSize(glyphSet)[1]), I2F(getAtlasSize(glyphSet)[2])>>,
              offsetX, color)

\* The end of one iteration of the placement loop: push_back(g), then
\* if (i + 1 < s.size()) { offsetX += advance; maxY = max(maxY, ...); }
\* (i is 1-based here).
PushGlyph(s, i, st, glyphData, g) ==
  IF i + 1 <= Len(s)
  THEN [quads |-> Append(st.quads, g),
        offsetX |-> FAdd(st.offsetX, glyphData.m_advance),
        maxY |-> FMax(st.maxY, FAdd(g.center[2], g.halfSize[2])),
        ok |-> st.ok]
  ELSE [st EXCEPT !.quads = Append(st.quads, g)]

PlaceFound(s, glyphSet, color, i, st, glyphData) ==
  PushGlyph(s, i, st, glyphData, MakeGlyph(glyphSet, glyphData, st.offsetX, color))

PlaceKey(s, glyphSet, color, i, st, key) ==
  IF key = NoGlyph THEN [st EXCEPT !.ok = FALSE]
  ELSE PlaceFound(s, glyphSet, color, i, st, getGlyphs(glyphSet)[key])

\* One iteration of the placement loop, for the character at index i, from
\* the loop state st = [quads, offsetX, maxY, ok].
PlaceGlyph(s, glyphSet, color, i, st) ==
  PlaceKey(s, glyphSet, color, i, st, findGlyph(glyphSet, s[i]))

\* The placement loop over the characters lo..hi, run as the loop over
\* lo..mid followed by the loop over mid+1..hi.
RECURSIVE PlaceGlyphs(_, _, _, _, _, _)
PlaceGlyphs(s, glyphSet, color, lo, hi, st) ==
  IF lo > hi \/ ~st.ok THEN st
  ELSE IF lo = hi THEN PlaceGlyph(s, glyphSet, color, lo, st)
  ELSE PlaceGlyphs(s, glyphSet, color, ((lo + hi) \div 2) + 1, hi,
                   PlaceGlyphs(s, glyphSet, color, lo, (lo + hi) \div 2, st))

\* float const scale = std::min(size.x / offsetX, size.y / maxY);
LayoutScale(size, offsetX, maxY) == FMin(FDiv(size[1], offsetX), FDiv(size[2], maxY))

\* (size - content * scale) * 0.5f
LayoutOffset(extent, content, scale) == FMul(FSub(extent, FMul(content, scale)), FHalf)

\* The re-projection of one placed quad.
ProjectGlyph(g, leftTop, scale, layoutOffsetX, layoutOffsetY) ==
  [g EXCEPT !.center = <<FAdd(FAdd(leftTop[1], FMul(g.center[1], scale)), layoutOffsetX),
                         FAdd(FAdd(leftTop[2], FMul(g.center[2], scale)), layoutOffsetY)>>,
            !.halfSize = <<FMul(g.halfSize[1], scale), FMul(g.halfSize[2], scale)>>]

\* The re-projection loop over the quads lo..hi of the call.
RECURSIVE ProjectGlyphs(_, _, _, _, _, _, _)
ProjectGlyphs(quads, lo, hi, leftTop, scale, layoutOffsetX, layoutOffsetY) ==
  IF lo > hi THEN <<>>
  ELSE IF lo = hi
       THEN <<ProjectGlyph(quads[lo], leftTop, scale, layoutOffsetX, layoutOffsetY)>>
  ELSE ProjectGlyphs(quads, lo, (lo + hi) \div 2, leftTop, scale,
                     layoutOffsetX, layoutOffsetY)
       \o ProjectGlyphs(quads, ((lo + hi) \div 2) + 1, hi, leftTop, scale,
                        layoutOffsetX, layoutOffsetY)

\* The hashCombine calls of addText.
AddTextHashNoAlpha(seed, r) ==
  hashCombine(hashCombine(hashCombine(hashCombine(hashCombine(hashCombine(hashCombine(
    hashCombineString(seed, r.s),
    r.leftTop[1]), r.leftTop[2]), r.size[1]), r.size[2]),
    r.color[1]), r.color[2]), r.color[3])

AddTextHash(seed, r) ==
  hashCombine(hashCombine(hashCombine(hashCombine(hashCombine(hashCombine(hashCombine(
    hashCombine(hashCombineString(seed, r.s),
    r.leftTop[1]), r.leftTop[2]), r.size[1]), r.size[2]),
    r.color[1]), r.color[2]), r.color[3]), r.color[4])


-----------------------------------------------------------------------------
(* TextRenderer: the actions.                                               *)

kGlyphBufferDefaultSize == 1000

NoAdd == [kind |-> "none"]

\* TextRenderer::initialize, and the members' initialisers.
InitLayout ==
  /\ m_screenGlyphs = <<>>
  /\ m_screenGlyphsHash = 0
  /\ m_prevScreenGlyphsHash = 0
  /\ m_glyphBufferSize = kGlyphBufferDefaultSize
  /\ m_glyphBuffer = <<>>
  /\ pc = "idle"
  /\ calls = <<>>
  /\ prevCalls = <<>>
  /\ lastAdd = NoAdd
  /\ lastEnd = "none"
  /\ drawn = 0

\* The caller's own steps at beginLayouting: a new frame starts.
BeginFrame ==
  /\ pc = "idle"
  /\ pc' = "layouting"
  /\ calls' = <<>>
  /\ prevCalls' = calls
  /\ lastAdd' = NoAdd
  /\ lastEnd' = "none"
  /\ drawn' = 0

\* beginLayouting without "m_screenGlyphsHash = 0".
beginLayoutingNoReset ==
  /\ BeginFrame
  /\ m_screenGlyphs' = <<>>
  /\ m_prevScreenGlyphsHash' = m_screenGlyphsHash
  /\ m_screenGlyphsHash' = m_screenGlyphsHash
  /\ UNCHANGED <<m_glyphBufferSize, m_glyphBuffer, pk, sub, gen, red>>

beginLayouting ==
  /\ BeginFrame
  /\ m_screenGlyphs' = <<>>
  /\ m_prevScreenGlyphsHash' = m_screenGlyphsHash
  /\ m_screenGlyphsHash' = 0
  /\ UNCHANGED <<m_glyphBufferSize, m_glyphBuffer, pk, sub, gen, red>>

\* A re-projection that starts at the first pending quad.
addTextProjectAll(r, startIndex, placed, scale, layoutOffsetX, layoutOffsetY) ==
  /\ m_screenGlyphs' =
       ProjectGlyphs(placed.quads, 1, Len(placed.quads),
                     r.leftTop, scale, layoutOffsetX, layoutOffsetY)
  /\ lastAdd' = [kind |-> "placed", startIndex |-> startIndex,
                 offsetX |-> placed.offsetX, maxY |-> placed.maxY, scale |-> scale,
                 layoutOffsetX |-> layoutOffsetX, layoutOffsetY |-> layoutOffsetY]
  /\ pc' = pc

\* The end of addText: the re-projection of the quads of this call.
addTextProject(r, startIndex, placed, scale, layoutOffsetX, layoutOffsetY) ==
  /\ m_screenGlyphs' =
       SubSeq(placed.quads, 1, startIndex)
       \o ProjectGlyphs(placed.quads, startIndex + 1, Len(placed.quads),
                        r.leftTop, scale, layoutOffsetX, layoutOffsetY)
  /\ lastAdd' = [kind |-> "placed", startIndex |-> startIndex,
                 offsetX |-> placed.offsetX, maxY |-> placed.maxY, scale |-> scale,
                 layoutOffsetX |-> layoutOffsetX, layoutOffsetY |-> layoutOffsetY]
  /\ pc' = pc

addTextScale(r, startIndex, placed, scale) ==
  addTextProject(r, startIndex, placed, scale,
                 LayoutOffset(r.size[1], placed.offsetX, scale),
                 LayoutOffset(r.size[2], placed.maxY, scale))

addTextPlaced(r, startIndex, placed) ==
  IF ~placed.ok
  THEN \* assert(it != glyphs.end()) fails
       /\ pc' = "aborted"
       /\ lastAdd' = [kind |-> "asserted"]
       /\ UNCHANGED m_screenGlyphs
  ELSE addTextScale(r, startIndex, placed,
                    LayoutScale(r.size, placed.offsetX, placed.maxY))

\* addText(s, leftTop, size, color, glyphSet), r holding the five arguments.
addText(r) ==
  /\ pc = "layouting"
  /\ calls' = Append(calls, r)
  /\ IF r.s = <<>>
     THEN /\ lastAdd' = [kind |-> "empty"]
          /\ UNCHANGED <<m_screenGlyphs, m_screenGlyphsHash, pc>>
     ELSE /\ m_screenGlyphsHash' = AddTextHash(m_screenGlyphsHash, r)
          /\ addTextPlaced(r, Len(m_screenGlyphs),
                           PlaceGlyphs(r.s, r.glyphSet, r.color, 1, Len(r.s),
                                       [quads |-> m_screenGlyphs, offsetX |-> FZero,
                                        maxY |-> FZero, ok |-> TRUE]))
  /\ UNCHANGED <<m_prevScreenGlyphsHash, m_glyphBufferSize, m_glyphBuffer,
                 prevCalls, lastEnd, drawn, pk, sub, gen, red>>

\* The loop below with "if" for "while".
NewGlyphBufferSizeOnce(newGlyphBufferSize, n) ==
  IF n > newGlyphBufferSize THEN newGlyphBufferSize * 2 ELSE newGlyphBufferSize

\* while (m_screenGlyphs.size() > newGlyphBufferSize) newGlyphBufferSize *= 2;
\* (a wrap-around of the uint32_t needs more than 2^31 quads)
RECURSIVE NewGlyphBufferSize(_, _)
NewGlyphBufferSize(newGlyphBufferSize, n) ==
  IF n > newGlyphBufferSize
  THEN NewGlyphBufferSize(newGlyphBufferSize * 2, n)
  ELSE newGlyphBufferSize

\* memcpy(buffer, quads, n * sizeof(Glyph)): the first n records are
\* overwritten, the records after them keep what they held.
Memcpy(buffer, quads) ==
  IF Len(buffer) > Len(quads)
  THEN quads \o SubSeq(buffer, Len(quads) + 1, Len(buffer))
  ELSE quads

\* An update that leaves the data buffer as it is.
endLayoutingUpdateNoWrite(newGlyphBufferSize) ==
  /\ lastEnd' = "skipped"
  /\ UNCHANGED <<m_glyphBufferSize, m_glyphBuffer>>

\* The update of the data buffer, newGlyphBufferSize being computed.
endLayoutingUpdate(newGlyphBufferSize) ==
  IF newGlyphBufferSize # m_glyphBufferSize
  THEN /\ m_glyphBufferSize' = newGlyphBufferSize
       /\ m_glyphBuffer' = Memcpy(<<>>, m_screenGlyphs)
       /\ lastEnd' = "reallocated"
  ELSE /\ m_glyphBuffer' = Memcpy(m_glyphBuffer, m_screenGlyphs)
       /\ lastEnd' = "uploaded"
       /\ UNCHANGED m_glyphBufferSize

endLayouting ==
  /\ pc = "layouting"
  /\ pc' = "ended"
  /\ IF m_screenGlyphsHash = m_prevScreenGlyphsHash
     THEN /\ lastEnd' = "skipped"
          /\ UNCHANGED <<m_glyphBufferSize, m_glyphBuffer>>
     ELSE endLayoutingUpdate(NewGlyphBufferSize(m_glyphBufferSize, Len(m_screenGlyphs)))
  /\ UNCHANGED <<m_screenGlyphs, m_screenGlyphsHash, m_prevScreenGlyphsHash,
                 calls, prevCalls, lastAdd, drawn, pk, sub, gen, red>>

\* render: one instanced draw of m_screenGlyphs.size() quads, none when empty.
render ==
  /\ pc = "ended"
  /\ pc' = "idle"
  /\ drawn' = Len(m_screenGlyphs)
  /\ UNCHANGED <<m_screenGlyphs, m_screenGlyphsHash, m_prevScreenGlyphsHash,
                 m_glyphBufferSize, m_glyphBuffer, calls, prevCalls,
                 lastAdd, lastEnd, pk, sub, gen, red>>

-----------------------------------------------------------------------------
(* The requests of the frames.                                              *)

Req(s, leftTop, size, color, glyphSet) ==
  [s |-> s,
   leftTop |-> <<I2F(leftTop[1]), I2F(leftTop[2])>>,
   size |-> <<I2F(size[1]), I2F(size[2])>>,
   color |-> <<F(color[1], 10), F(color[2], 10), F(color[3], 10), F(color[4], 10)>>,
   glyphSet |-> glyphSet]

\* Frames of the layout cache: "ab" in a 100x50 box, opaque and half
\* transparent, and a single '?'.
Requests ==
  { Req(<<97, 98>>, <<0, 0>>, <<100, 50>>, <<1, 1, 1, 10>>, 1),
    Req(<<97, 98>>, <<0, 0>>, <<100, 50>>, <<1, 1, 1, 5>>, 1),
    Req(<<63>>, <<10, 5>>, <<40, 40>>, <<5, 1, 1, 10>>, 1) }

\* Single frames: "ab"; a single 'a'; a single '?', which no glyph set
\* holds; an empty text; "b?a" and "ab" with the second glyph set, which
\* does not hold 'b'; "ba".
TextRequests ==
  { Req(<<97, 98>>, <<0, 0>>, <<100, 50>>, <<1, 1, 1, 10>>, 1),
    Req(<<97>>, <<0, 0>>, <<100, 50>>, <<1, 1, 1, 10>>, 1),
    Req(<<63>>, <<10, 5>>, <<40, 40>>, <<5, 1, 1, 10>>, 1),
    Req(<<>>, <<10, 5>>, <<40, 40>>, <<5, 1, 1, 10>>, 1),
    Req(<<98, 63, 97>>, <<10, 5>>, <<100, 50>>, <<1, 1, 1, 10>>, 2),
    Req(<<97, 98>>, <<0, 0>>, <<100, 50>>, <<1, 1, 1, 10>>, 2),
    Req(<<98, 97>>, <<10, 5>>, <<30, 60>>, <<1, 1, 1, 10>>, 1) }

IdlePack == [pc |-> "off"]
IdleSub == [pc |-> "off"]
IdleGen == [pc |-> "off"]
IdleRed == [pc |-> "off"]

Init == InitLayout /\ pk = IdlePack /\ sub = IdleSub /\ gen = IdleGen /\ red = IdleRed

Next ==
  \/ beginLayouting
  \/ \E r \in Requests : Len(calls) < MaxTexts /\ addText(r)
  \/ endLayouting
  \/ render

Spec == Init /\ [][Next]_vars

\* One frame of texts of every kind.
NextText ==
  \/ (lastEnd = "none" /\ beginLayouting)
  \/ \E r \in TextRequests : Len(calls) < MaxTexts /\ addText(r)
  \/ endLayouting
  \/ render

SpecText == Init /\ [][NextText]_vars


\* Frames of one text each: as long as the instance buffer holds, one quad
\* more, and one quad more than twice the buffer.
LongText(n) == [i \in 1..n |-> 97]

GrowRequests ==
  { Req(LongText(n), <<0, 0>>, <<100, 50>>, <<1, 1, 1, 10>>, 1) :
      n \in {kGlyphBufferDefaultSize, kGlyphBufferDefaultSize + 1,
             2 * kGlyphBufferDefaultSize + 1} }

NextGrow ==
  \/ beginLayouting
  \/ \E r \in GrowRequests : calls = <<>> /\ addText(r)
  \/ endLayouting
  \/ render

SpecGrow == Init /\ [][NextGrow]_vars

\* Frames of one text with the same box and colour and either glyph set.
SetRequests ==
  { Req(<<97, 98>>, <<0, 0>>, <<100, 50>>, <<1, 1, 1, 10>>, 1),
    Req(<<97, 98>>, <<0, 0>>, <<100, 50>>, <<1, 1, 1, 10>>, 2),
    Req(<<97>>, <<0, 0>>, <<100, 50>>, <<1, 1, 1, 10>>, 2) }

NextSets ==
  \/ beginLayouting
  \/ \E r \in SetRequests : Len(calls) < MaxTexts /\ addText(r)
  \/ endLayouting
  \/ render

SpecSets == Init /\ [][NextSets]_vars


-----------------------------------------------------------------------------
(* GlyphSet: the atlas packer (glyph_set.hpp declares packGlyphsToAtlas;    *)
(* its steps follow section 4.1 of the specification).  pk holds the        *)
(* position of the packer: the base and the current side of the atlas, the  *)
(* sorted cells, the index of the next glyph, the pen, the height of the    *)
(* row, the positions given so far and the sides tried.                     *)

\* The largest number of glyphs of a glyph set.
MaxPackGlyphs == 3

\* The rendered sizes of the glyphs (a space renders to nothing).
ContentSizes == {<<0, 0>>, <<4, 8>>, <<8, 4>>, <<8, 8>>}

\* baseAtlasSize
PackBases == {16, 32}

\* m_pixelSize: the rendered size and the border on every side.
CellOf(content) ==
  <<content[1] + 2 * kBorderInPixels, content[2] + 2 * kBorderInPixels>>

CellsOf(contents) == [i \in DOMAIN contents |-> CellOf(contents[i])]

\* The glyph sets handed to the constructor.
PackInputs ==
  UNION {[1..n -> ContentSizes] : n \in 1..MaxPackGlyphs}

\* Ten glyphs of 20x20 pixels.
ScenarioContents == [i \in 1..10 |-> <<20, 20>>]

Descending(q) == \A i \in 1..(Len(q) - 1) : q[i][2] >= q[i + 1][2]

SameCells(q, g) ==
  \A c \in {g[i] : i \in DOMAIN g} :
    Cardinality({i \in DOMAIN q : q[i] = c}) = Cardinality({i \in DOMAIN g : g[i] = c})

\* The orders a sort by descending pixel height can leave the cells in.
SortedOrders(g) ==
  {q \in [DOMAIN g -> {g[i] : i \in DOMAIN g}] : SameCells(q, g) /\ Descending(q)}

\* A retry that keeps the pen and the positions of the failed attempt.
PackStartKeep(p, atlasSize) ==
  [p EXCEPT !.pc = "packing", !.S = atlasSize, !.attempts = Append(@, atlasSize)]

\* The start of one attempt at the side atlasSize.
PackStart(p, atlasSize) ==
  [p EXCEPT !.pc = "packing", !.S = atlasSize, !.i = 1, !.x = 0, !.y = 0,
            !.rowH = 0, !.pos = <<>>, !.attempts = Append(@, atlasSize)]

\* GlyphSet::GlyphSet: the cells are sorted and the first attempt starts.
GlyphSetCtorOn(baseAtlasSize, contents) ==
  /\ pk.pc = "off"
  /\ \E q \in SortedOrders(CellsOf(contents)) :
       pk' = PackStart([pc |-> "off", base |-> baseAtlasSize, S |-> baseAtlasSize,
                        cells |-> q, i |-> 1, x |-> 0, y |-> 0, rowH |-> 0,
                        pos |-> <<>>, attempts |-> <<>>], baseAtlasSize)
  /\ UNCHANGED <<layoutVars, sub, gen, red>>

GlyphSetCtor ==
  \/ \E b \in PackBases : \E g \in PackInputs : GlyphSetCtorOn(b, g)
  \/ GlyphSetCtorOn(64, ScenarioContents)

\* The top of the row of the next glyph, wrap telling that the row is full.
PackRowYSame(y, rowH, wrap) == y

PackRowY(y, rowH, wrap) == IF wrap THEN y + rowH ELSE y

PackMax(a, b) == IF a >= b THEN a ELSE b

\* The glyph of cell c goes to (x, y), or the attempt fails.
PackPlace(p, c, x, y, rowH) ==
  IF y + c[2] > p.S
  THEN [p EXCEPT !.pc = "failed"]
  ELSE [p EXCEPT !.pos = Append(@, <<x, y>>), !.x = x + c[1], !.y = y,
                 !.rowH = PackMax(rowH, c[2]), !.i = @ + 1]

PackGlyph(p, c, wrap) ==
  PackPlace(p, c, IF wrap THEN 0 ELSE p.x, PackRowY(p.y, p.rowH, wrap),
            IF wrap THEN 0 ELSE p.rowH)

\* One glyph of packGlyphsToAtlas: left to right, to a new row when the
\* width exceeds the side.
packGlyph ==
  /\ pk.pc = "packing"
  /\ pk.i <= Len(pk.cells)
  /\ pk' = PackGlyph(pk, pk.cells[pk.i], pk.x + pk.cells[pk.i][1] > pk.S)
  /\ UNCHANGED <<layoutVars, sub, gen, red>>

\* The total height exceeded the side: the side doubles and the packing
\* starts again.
packGrow ==
  /\ pk.pc = "failed"
  /\ pk' = PackStart(pk, pk.S * 2)
  /\ UNCHANGED <<layoutVars, sub, gen, red>>

\* Every glyph has its place: m_atlasSize is set.
packDone ==
  /\ pk.pc = "packing"
  /\ pk.i > Len(pk.cells)
  /\ pk' = [pk EXCEPT !.pc = "done"]
  /\ UNCHANGED <<layoutVars, sub, gen, red>>

NextPack == GlyphSetCtor \/ packGlyph \/ packGrow \/ packDone

SpecPack == Init /\ [][NextPack]_vars

-----------------------------------------------------------------------------
(* GlyphTexture::generate: the submission of the indirect commands.  sub    *)
(* holds indirectBufferSize, the loop variable start and the ranges handed  *)
(* to executeCommandsInBuffer so far.                                       *)

kMaxCommands == 8192

\* The largest number of full submissions of one run.
MaxFullChunks == 4

\* The numbers of commands past a multiple of kMaxCommands.
ChunkRests == {0, 1, 2, 4096, 8190, 8191}

\* indirectBufferSize: the early return of generate leaves the positive ones.
\* It is the number of pixels of the glyph rectangles of one atlas, and
\* neither it nor start comes near the end of the uint32_t range.
BufferSizes ==
  {q * kMaxCommands + r : q \in 0..MaxFullChunks, r \in ChunkRests} \ {0}

\* A range that is always a full one.
RangeLengthFull(indirectBufferSize, start) == kMaxCommands

\* std::min(indirectBufferSize - start, kMaxCommands), start being below
\* indirectBufferSize.
RangeLength(indirectBufferSize, start) ==
  IF indirectBufferSize - start < kMaxCommands
  THEN indirectBufferSize - start
  ELSE kMaxCommands

\* for (uint32_t start = 0; ...
generateLoopInit ==
  /\ sub.pc = "off"
  /\ \E n \in BufferSizes :
       sub' = [pc |-> "loop", indirectBufferSize |-> n, start |-> 0, ranges |-> <<>>]
  /\ UNCHANGED <<layoutVars, pk, gen, red>>

\* start < indirectBufferSize: executeCommandsInBuffer(icb, Range(start, ...));
\* start += kMaxCommands
executeCommandsInBuffer ==
  /\ sub.pc = "loop"
  /\ sub.start < sub.indirectBufferSize
  /\ sub' = [sub EXCEPT
       !.ranges = Append(@, [location |-> sub.start,
                             length |-> RangeLength(sub.indirectBufferSize, sub.start)]),
       !.start = sub.start + kMaxCommands]
  /\ UNCHANGED <<layoutVars, pk, gen, red>>

\* !(start < indirectBufferSize): the loop is left.
generateLoopExit ==
  /\ sub.pc = "loop"
  /\ ~(sub.start < sub.indirectBufferSize)
  /\ sub' = [sub EXCEPT !.pc = "done"]
  /\ UNCHANGED <<layoutVars, pk, gen, red>>

NextChunk == generateLoopInit \/ executeCommandsInBuffer \/ generateLoopExit

\* generate runs on the caller's thread to its end.
SpecChunk ==
  /\ Init
  /\ [][NextChunk]_vars
  /\ WF_vars(executeCommandsInBuffer)
  /\ WF_vars(generateLoopExit)

-----------------------------------------------------------------------------
(* GlyphTexture::generate, from the glyph set to the returned texture.  gen *)
(* holds the locals of the call and the calls made on the command encoder.  *)
(* The kernels sdfGenerate and sdfWriteTexture run on the device when the   *)
(* command buffer is committed; their effect follows section 4.2 of the     *)
(* specification.                                                           *)

\* std::numeric_limits<int>::max()
kIntMax == 2147483647

\* The side of the atlas of the glyph sets handed to generate.
GenAtlasSide == 4

\* One glyph of a glyph set: the number of its lines, m_pixelSize and
\* m_posInAtlas.
GenGlyph(lines, pixelSize, posInAtlas) ==
  [lines |-> lines, m_pixelSize |-> pixelSize, m_posInAtlas |-> posInAtlas]

\* The glyph sets handed to generate, their rectangles disjoint and inside
\* the atlas: none; a space; 'a' and a space; 'a' and 'b', with and without
\* a space; 'a', 'b' and 'c'; a glyph with lines and no pixel, alone and
\* next to a space; two glyphs with lines and no pixel.
GenGlyphSets ==
  { <<>>,
    (32 :> GenGlyph(0, <<2, 2>>, <<0, 0>>)),
    (97 :> GenGlyph(2, <<2, 2>>, <<0, 0>>)) @@ (32 :> GenGlyph(0, <<1, 2>>, <<2, 0>>)),
    (97 :> GenGlyph(2, <<2, 1>>, <<0, 0>>)) @@ (98 :> GenGlyph(3, <<1, 2>>, <<2, 1>>)),
    (97 :> GenGlyph(2, <<2, 1>>, <<1, 0>>)) @@ (98 :> GenGlyph(3, <<1, 2>>, <<2, 1>>))
      @@ (32 :> GenGlyph(0, <<1, 1>>, <<0, 3>>)),
    (97 :> GenGlyph(1, <<1, 1>>, <<0, 0>>)) @@ (98 :> GenGlyph(5, <<2, 2>>, <<1, 0>>))
      @@ (99 :> GenGlyph(2, <<3, 1>>, <<0, 3>>)),
    (97 :> GenGlyph(1, <<0, 0>>, <<0, 0>>)),
    (97 :> GenGlyph(2, <<0, 2>>, <<0, 0>>)) @@ (32 :> GenGlyph(0, <<2, 2>>, <<1, 1>>)),
    (97 :> GenGlyph(2, <<0, 0>>, <<0, 0>>)) @@ (98 :> GenGlyph(4, <<3, 0>>, <<0, 1>>)) }

\* threadExecutionWidth and maxTotalThreadsPerThreadgroup of the pipeline.
GenDevice == [simdGroupSize |-> 32, maxThreadsInGroup |-> 1024]

\* The orders in which the unordered_map can hand out its glyphs.
IterationOrders(glyphs) ==
  {q \in [1..Cardinality(DOMAIN glyphs) -> DOMAIN glyphs] :
     \A g \in DOMAIN glyphs : \E k \in DOMAIN q : q[k] = g}

\* if (glyphData.m_lines.empty()) continue;
HasLines(glyphData) == glyphData.lines # 0

\* The loop of lineOffsets over the glyphs order[k..]: the offsets given
\* and the size of the line buffer.
RECURSIVE LineOffsetsFrom(_, _, _, _)
LineOffsetsFrom(glyphs, order, k, acc) ==
  IF k > Len(order) THEN acc
  ELSE IF ~HasLines(glyphs[order[k]]) THEN LineOffsetsFrom(glyphs, order, k + 1, acc)
  ELSE LineOffsetsFrom(glyphs, order, k + 1,
         [lineOffsets |-> acc.lineOffsets @@ (order[k] :> acc.linesBufferSize),
          linesBufferSize |-> acc.linesBufferSize + glyphs[order[k]].lines])

\* Every glyph given the start of the line buffer.
LineOffsetsZero(glyphs, order) ==
  [lineOffsets |-> [g \in {h \in DOMAIN glyphs : HasLines(glyphs[h])} |-> 0],
   linesBufferSize |->
     IF \E h \in DOMAIN glyphs : HasLines(glyphs[h]) THEN 1 ELSE 0]

LineOffsets(glyphs, order) ==
  LineOffsetsFrom(glyphs, order, 1, [lineOffsets |-> <<>>, linesBufferSize |-> 0])

\* if (linesBufferSize == 0): the default texture is returned.
NoLinesNever(linesBufferSize) == FALSE

NoLines(linesBufferSize) == linesBufferSize = 0

\* A creation of a pipeline state or of a function fails: CHECK_AND_RETURN.
generateFail ==
  /\ gen.pc = "off"
  /\ gen' = [pc |-> "returned", returned |-> "nullptr", log |-> <<>>]
  /\ UNCHANGED <<layoutVars, pk, sub, red>>

\* The pipeline states are created and the line offsets calculated.
generateLines ==
  /\ gen.pc = "off"
  /\ \E glyphs \in GenGlyphSets : \E order \in IterationOrders(glyphs) :
       gen' = [pc |-> "lines", glyphs |-> glyphs, order |-> order,
               atlasSize |-> <<GenAtlasSide, GenAtlasSide>>,
               lineOffsets |-> LineOffsets(glyphs, order).lineOffsets,
               linesBufferSize |-> LineOffsets(glyphs, order).linesBufferSize,
               outMinDistance |-> <<>>, outIntersectionNumber |-> <<>>,
               outputTexture |-> <<>>, indirectBufferSize |-> 0, k |-> 1,
               items |-> <<>>, start |-> 0, log |-> <<>>, returned |-> "none"]
  /\ UNCHANGED <<layoutVars, pk, sub, red>>

\* Return default 1x1 black texture.
generateDefault ==
  /\ gen.pc = "lines"
  /\ NoLines(gen.linesBufferSize)
  /\ gen' = [gen EXCEPT !.pc = "returned", !.returned = "1x1", !.outputTexture = <<0>>]
  /\ UNCHANGED <<layoutVars, pk, sub, red>>

\* The line buffer, the output buffers with their initial values, the
\* textures over them, the output texture (private storage: what it holds
\* before it is written is not defined), the command buffer and the encoder.
generateBuffers ==
  /\ gen.pc = "lines"
  /\ ~NoLines(gen.linesBufferSize)
  /\ \E undefined \in {0, 255} :
       gen' = [gen EXCEPT
         !.pc = "encoder",
         !.outMinDistance = [p \in 1..(gen.atlasSize[1] * gen.atlasSize[2]) |-> kIntMax],
         !.outIntersectionNumber = [p \in 1..(gen.atlasSize[1] * gen.atlasSize[2]) |-> 0],
         !.outputTexture = [p \in 1..(gen.atlasSize[1] * gen.atlasSize[2]) |-> undefined]]
  /\ UNCHANGED <<layoutVars, pk, sub, red>>

\* indirectBufferSize += m_pixelSize.x * m_pixelSize.y over the glyphs with lines.
RECURSIVE IndirectBufferSize(_, _, _)
IndirectBufferSize(glyphs, order, k) ==
  IF k > Len(order) THEN 0
  ELSE (IF HasLines(glyphs[order[k]])
        THEN glyphs[order[k]].m_pixelSize[1] * glyphs[order[k]].m_pixelSize[2]
        ELSE 0) + IndirectBufferSize(glyphs, order, k + 1)

\* Fill indirect buffers: the count, and the return when it is zero.
generateCount(indirectBufferSize) ==
  /\ gen.pc = "encoder"
  /\ gen' = IF indirectBufferSize = 0
            THEN [gen EXCEPT !.pc = "returned", !.returned = "atlas"]
            ELSE [gen EXCEPT !.pc = "items", !.indirectBufferSize = indirectBufferSize]
  /\ UNCHANGED <<layoutVars, pk, sub, red>>

\* v |= v >> k on a uint32_t
RECURSIVE BitOr(_, _)
BitOr(a, b) ==
  IF a = 0 THEN b
  ELSE IF b = 0 THEN a
  ELSE (IF (a % 2) + (b % 2) > 0 THEN 1 ELSE 0) + 2 * BitOr(a \div 2, b \div 2)

OrShift(v, k) == BitOr(v, v \div (2 ^ k))

nextPowerOf2(v) ==
  IF v = 0 THEN 1
  ELSE OrShift(OrShift(OrShift(OrShift(OrShift(v - 1, 1), 2), 4), 8), 16) + 1

\* utils::getAligned
getAligned(v, alignment) == ((v + alignment - 1) \div alignment) * alignment

\* std::max(nextPowerOf2(lines.size() / 2), simdGroupSize)
ThreadsCount(lines, simdGroupSize) ==
  IF nextPowerOf2(lines \div 2) < simdGroupSize
  THEN simdGroupSize
  ELSE nextPowerOf2(lines \div 2)

\* std::min(utils::getAligned(threadsCount, simdGroupSize), maxThreadsInGroup)
ThreadsInGroup(threadsCount, simdGroupSize, maxThreadsInGroup) ==
  IF getAligned(threadsCount, simdGroupSize) < maxThreadsInGroup
  THEN getAligned(threadsCount, simdGroupSize)
  ELSE maxThreadsInGroup

\* An offset taken in the rectangle of the glyph.
ItemOffsetLocal(glyphData, atlasSize, i, j) == j * atlasSize[1] + i

\* offset = y * atlasSize.x + x
ItemOffset(glyphData, atlasSize, i, j) ==
  (glyphData.m_posInAtlas[2] + j) * atlasSize[1] + (glyphData.m_posInAtlas[1] + i)

\* The command and the parameters of the pixel (i, j) of a glyph.
WorkItem(glyph, glyphData, atlasSize, lineOffsets, i, j) ==
  [glyph |-> glyph,
   pointPos |-> <<F(2 * i + 1, 2), F(2 * j + 1, 2)>>,
   linesCount |-> glyphData.lines,
   lineBufferOffset |-> lineOffsets[glyph],
   offset |-> ItemOffset(glyphData, atlasSize, i, j),
   threadsCount |-> ThreadsCount(glyphData.lines, GenDevice.simdGroupSize),
   threadsInGroup |-> ThreadsInGroup(ThreadsCount(glyphData.lines, GenDevice.simdGroupSize),
                                     GenDevice.simdGroupSize, GenDevice.maxThreadsInGroup)]

\* for (j ...) for (i ...): the work items of one glyph, row after row.
WorkItems(glyph, glyphData, atlasSize, lineOffsets) ==
  [n \in 1..(glyphData.m_pixelSize[1] * glyphData.m_pixelSize[2]) |->
     WorkItem(glyph, glyphData, atlasSize, lineOffsets,
              (n - 1) % glyphData.m_pixelSize[1], (n - 1) \div glyphData.m_pixelSize[1])]

\* One glyph of the loop that fills the indirect command buffer.
generateItems ==
  /\ gen.pc = "items"
  /\ gen.k <= Len(gen.order)
  /\ gen' = [gen EXCEPT
       !.k = @ + 1,
       !.items = IF HasLines(gen.glyphs[gen.order[gen.k]])
                 THEN @ \o WorkItems(gen.order[gen.k], gen.glyphs[gen.order[gen.k]],
                                     gen.atlasSize, gen.lineOffsets)
                 ELSE @]
  /\ UNCHANGED <<layoutVars, pk, sub, red>>

\* The loop is left: setComputePipelineState, useResource.
generateEncode ==
  /\ gen.pc = "items"
  /\ gen.k > Len(gen.order)
  /\ gen' = [gen EXCEPT !.pc = "submit", !.start = 0]
  /\ UNCHANGED <<layoutVars, pk, sub, red>>

\* One turn of the submission loop.
generateExecute ==
  /\ gen.pc = "submit"
  /\ gen.start < gen.indirectBufferSize
  /\ gen' = [gen EXCEPT
       !.log = Append(@, [call |-> "executeCommandsInBuffer", location |-> gen.start,
                          length |-> RangeLength(gen.indirectBufferSize, gen.start)]),
       !.start = gen.start + kMaxCommands]
  /\ UNCHANGED <<layoutVars, pk, sub, red>>

\* Run compute shader to write output SDF texture.
generateDispatch ==
  /\ gen.pc = "submit"
  /\ ~(gen.start < gen.indirectBufferSize)
  /\ gen' = [gen EXCEPT !.pc = "dispatched",
                        !.log = Append(@, [call |-> "dispatchThreads",
                                           location |-> 0,
                                           length |-> gen.atlasSize[1] * gen.atlasSize[2]])]
  /\ UNCHANGED <<layoutVars, pk, sub, red>>

\* The distance of the pixel to one line and its crossing of the line, as
\* integers: a stand-in for the geometry of the kernel.
LineDistance(line, pointPos) == 1 + ((line + pointPos[1].n + pointPos[2].n) % 4)
LineCrossing(line, pointPos) == (line + pointPos[2].n) % 2

RECURSIVE MinOverLines(_, _, _)
MinOverLines(item, l, acc) ==
  IF l >= item.linesCount THEN acc
  ELSE MinOverLines(item, l + 1,
         IF LineDistance(item.lineBufferOffset + l, item.pointPos) < acc
         THEN LineDistance(item.lineBufferOffset + l, item.pointPos) ELSE acc)

RECURSIVE SumOverLines(_, _)
SumOverLines(item, l) ==
  IF l >= item.linesCount THEN 0
  ELSE LineCrossing(item.lineBufferOffset + l, item.pointPos) + SumOverLines(item, l + 1)

\* The commands of the indirect buffer that the ranges of the log execute.
Executed(log, items) ==
  {n \in DOMAIN items : \E e \in DOMAIN log :
     /\ log[e].call = "executeCommandsInBuffer"
     /\ log[e].location < n
     /\ n <= log[e].location + log[e].length}

\* sdfGenerate: every executed command writes the slot its buffers are
\* bound to.
RECURSIVE SdfGenerate(_, _, _, _)
SdfGenerate(buffers, items, executed, n) ==
  IF n > Len(items) THEN buffers
  ELSE IF n \notin executed THEN SdfGenerate(buffers, items, executed, n + 1)
  ELSE SdfGenerate(
         [outMinDistance |->
            [buffers.outMinDistance EXCEPT
               ![items[n].offset + 1] = MinOverLines(items[n], 0, @)],
          outIntersectionNumber |->
            [buffers.outIntersectionNumber EXCEPT
               ![items[n].offset + 1] = @ + SumOverLines(items[n], 0)]],
         items, executed, n + 1)

\* sdfWriteTexture: the byte of one pixel, 128 being the outline, more
\* being inside, the distance clamped to the border.
SdfWriteTexture(minDistance, intersectionNumber) ==
  IF intersectionNumber % 2 = 1
  THEN 128 + 32 * (IF minDistance < kBorderInPixels THEN minDistance ELSE kBorderInPixels) - 1
  ELSE 128 - 32 * (IF minDistance < kBorderInPixels THEN minDistance ELSE kBorderInPixels)

\* The textures after the two passes have run.
Completed(g, buffers) ==
  [g EXCEPT !.outMinDistance = buffers.outMinDistance,
            !.outIntersectionNumber = buffers.outIntersectionNumber,
            !.outputTexture =
              [p \in DOMAIN g.outputTexture |->
                 SdfWriteTexture(buffers.outMinDistance[p],
                                 buffers.outIntersectionNumber[p])],
            !.pc = "returned", !.returned = "atlas",
            !.log = @ \o <<[call |-> "endEncoding", location |-> 0, length |-> 0],
                           [call |-> "commit", location |-> 0, length |-> 0],
                           [call |-> "waitUntilCompleted", location |-> 0, length |-> 0]>>]

\* endEncoding, commit, waitUntilCompleted and the return: the device runs
\* the commands of the encoder in their order.
generateCommit ==
  /\ gen.pc = "dispatched"
  /\ gen' = Completed(gen, SdfGenerate([outMinDistance |-> gen.outMinDistance,
                                        outIntersectionNumber |-> gen.outIntersectionNumber],
                                       gen.items, Executed(gen.log, gen.items), 1))
  /\ UNCHANGED <<layoutVars, pk, sub, red>>

NextGen ==
  \/ generateFail
  \/ generateLines
  \/ generateDefault
  \/ generateBuffers
  \/ generateCount(IndirectBufferSize(gen.glyphs, gen.order, 1))
  \/ generateItems
  \/ generateEncode
  \/ generateExecute
  \/ generateDispatch
  \/ generateCommit

SpecGen == Init /\ [][NextGen]_vars

-----------------------------------------------------------------------------
(* The dispatch of one work item, for any number of lines and any device:   *)
(* red holds the sizes handed to concurrentDispatchThreads.                 *)

\* The largest number of lines of a glyph.
MaxLines == 70

\* threadExecutionWidth of the pipelines.
SimdGroupSizes == {1, 2, 4, 8, 16, 32}

\* maxTotalThreadsPerThreadgroup, a multiple of the execution width.
MaxThreadsInGroups(simdGroupSize) == {simdGroupSize, 4 * simdGroupSize, 1024}

\* icbCommand->concurrentDispatchThreads(threadsCount, threadsInGroup)
concurrentDispatchThreads(lines, simdGroupSize, maxThreadsInGroup) ==
  /\ red.pc = "off"
  /\ red' = [pc |-> "threads", lines |-> lines, simdGroupSize |-> simdGroupSize,
             maxThreadsInGroup |-> maxThreadsInGroup,
             threadsCount |-> ThreadsCount(lines, simdGroupSize),
             threadsInGroup |-> ThreadsInGroup(ThreadsCount(lines, simdGroupSize),
                                               simdGroupSize, maxThreadsInGroup)]
  /\ UNCHANGED <<layoutVars, pk, sub, gen>>

NextThreads ==
  \E lines \in 1..MaxLines : \E simdGroupSize \in SimdGroupSizes :
    \E maxThreadsInGroup \in MaxThreadsInGroups(simdGroupSize) :
      concurrentDispatchThreads(lines, simdGroupSize, maxThreadsInGroup)

SpecThreads == Init /\ [][NextThreads]_vars

-----------------------------------------------------------------------------
(* The reduction of one work item of sdfGenerate, after section 4.2 of the  *)
(* specification: every worker holds the result of one segment and combines *)
(* it into the accumulators of the pixel, by an atomic minimum and an       *)
(* atomic sum, in any order.                                                *)

\* The largest number of segments reduced.
MaxSegments == 3

\* The distances of a pixel to a segment, and whether its ray crosses it.
SegmentResults == [distance : {1, 2, 3}, crossing : {0, 1}]

\* The results of the segments of the glyph for the pixel.
SegmentLists == UNION {[1..n -> SegmentResults] : n \in 1..MaxSegments}

\* The accumulators of the pixel as generate leaves them, and a worker for
\* every segment.
reduceStart ==
  /\ red.pc = "off"
  /\ \E segments \in SegmentLists :
       red' = [pc |-> "reduce", segments |-> segments, pending |-> DOMAIN segments,
               outMinDistance |-> kIntMax, outIntersectionNumber |-> 0]
  /\ UNCHANGED <<layoutVars, pk, sub, gen>>

\* A store in place of the minimum.
AtomicStore(old, value) == value

\* atomic minimum on the accumulator
AtomicMin(old, value) == IF value < old THEN value ELSE old

\* atomic sum on the accumulator
AtomicAdd(old, value) == old + value

\* One worker combines its result.
reduceCombine ==
  /\ red.pc = "reduce"
  /\ \E worker \in red.pending :
       red' = [red EXCEPT
         !.pending = @ \ {worker},
         !.outMinDistance = AtomicMin(@, red.segments[worker].distance),
         !.outIntersectionNumber = AtomicAdd(@, red.segments[worker].crossing)]
  /\ UNCHANGED <<layoutVars, pk, sub, gen>>

NextReduce == reduceStart \/ reduceCombine

SpecReduce == Init /\ [][NextReduce]_vars

-----------------------------------------------------------------------------
(* Properties of the layout cache.                                          *)

\* The fingerprint of a pass: the fold of the requests with a text.
RECURSIVE FingerprintFrom(_, _, _)
FingerprintFrom(seed, cs, i) ==
  IF i > Len(cs) THEN seed
  ELSE FingerprintFrom(IF cs[i].s = <<>> THEN seed ELSE AddTextHash(seed, cs[i]), cs, i + 1)

FingerprintOf(cs) == FingerprintFrom(0, cs, 1)

\* The parameters of a request that addText hashes.
Content(r) == <<r.s, r.leftTop, r.size, r.color>>

EndStep == pc = "layouting" /\ pc' = "ended"
BeginStep == pc = "idle" /\ pc' = "layouting"

\* C1: a pass that repeats the requests of the pass before it ends with the
\* fingerprint of that pass, and its endLayouting neither writes nor
\* reallocates the instance buffer.
C1_Idempotence ==
  [][(EndStep /\ calls = prevCalls)
       => /\ m_screenGlyphsHash = m_prevScreenGlyphsHash
          /\ lastEnd' = "skipped"
          /\ UNCHANGED <<m_glyphBuffer, m_glyphBufferSize>>]_vars

C1_Witness ==
  /\ pc = "ended"
  /\ Len(calls) = 2
  /\ calls = prevCalls
  /\ lastEnd = "skipped"
  /\ m_glyphBuffer = m_screenGlyphs

\* C2: a pass of two requests of different content, both with a text, that
\* follows the pass of the same two requests in the other order ends with
\* another fingerprint, and its endLayouting uploads the quads.
Swapped ==
  /\ Len(calls) = 2
  /\ prevCalls = <<calls[2], calls[1]>>
  /\ Content(calls[1]) # Content(calls[2])
  /\ calls[1].s # <<>>
  /\ calls[2].s # <<>>

C4_UploadGating ==
  [][/\ BeginStep => /\ m_screenGlyphs' = <<>>
                     /\ m_prevScreenGlyphsHash' = FingerprintOf(calls)
                     /\ m_screenGlyphsHash' = 0
     /\ EndStep =>
          IF FingerprintOf(calls) # FingerprintOf(prevCalls)
          THEN /\ lastEnd' \in {"uploaded", "reallocated"}
               /\ SubSeq(m_glyphBuffer', 1, Len(m_screenGlyphs)) = m_screenGlyphs
          ELSE /\ lastEnd' = "skipped"
               /\ UNCHANGED <<m_glyphBuffer, m_glyphBufferSize>>]_vars

C4_Witness ==
  /\ pc = "ended"
  /\ lastEnd = "uploaded"
  /\ prevCalls # <<>>
  /\ Len(calls) < Len(prevCalls)
  /\ m_prevScreenGlyphsHash = FingerprintOf(prevCalls)
  /\ Len(m_glyphBuffer) > Len(m_screenGlyphs)

\* C3: the capacity of the instance buffer is the initial capacity times a
\* power of two, never decreases, and an endLayouting that grows it sets it
\* to the smallest such value that holds the pending quads.
Capacities == {kGlyphBufferDefaultSize * (2 ^ k) : k \in 0..10}

SmallestCapacity(n) ==
  CHOOSE c \in Capacities : c >= n /\ \A d \in Capacities : d >= n => c <= d

C3_Doubling ==
  /\ [](m_glyphBufferSize \in Capacities)
  /\ [][/\ m_glyphBufferSize' >= m_glyphBufferSize
        /\ m_glyphBufferSize' # m_glyphBufferSize
             => /\ EndStep
                /\ m_glyphBufferSize' = SmallestCapacity(Len(m_screenGlyphs))]_vars

C3_Witness ==
  /\ pc = "ended"
  /\ lastEnd = "reallocated"
  /\ Len(m_screenGlyphs) = 2 * kGlyphBufferDefaultSize + 1
  /\ m_glyphBufferSize = 4 * kGlyphBufferDefaultSize


-----------------------------------------------------------------------------
(* Properties of addText.                                                   *)

\* The request of the last addText of the pass.
LastCall == calls[Len(calls)]

\* The quads the last addText appended.
LastQuads == SubSeq(m_screenGlyphs, lastAdd.startIndex + 1, Len(m_screenGlyphs))

Missing(r, i) == r.s[i] \notin DOMAIN getGlyphs(r.glyphSet)

\* The request r with a space for every character its glyph set lacks.
Substituted(r) ==
  [r EXCEPT !.s = [i \in 1..Len(r.s) |-> IF Missing(r, i) THEN kSpace ELSE r.s[i]]]

PlacedAlone(r) ==
  PlaceGlyphs(r.s, r.glyphSet, r.color, 1, Len(r.s),
              [quads |-> <<>>, offsetX |-> FZero, maxY |-> FZero, ok |-> TRUE])

ProjectedAlone(r, placed, scale) ==
  ProjectGlyphs(placed.quads, 1, Len(placed.quads), r.leftTop, scale,
                LayoutOffset(r.size[1], placed.offsetX, scale),
                LayoutOffset(r.size[2], placed.maxY, scale))

ScaledAlone(r, placed) ==
  ProjectedAlone(r, placed, LayoutScale(r.size, placed.offsetX, placed.maxY))

\* The quads of a request whose characters are all in its glyph set.
LayoutOf(r) == ScaledAlone(r, PlacedAlone(r))

\* C5: addText never fails on a character its glyph set lacks, and the
\* quads it appends are those of the text with a space in the place of
\* every such character.
C5_MissingGlyphFallback ==
  /\ pc # "aborted"
  /\ lastAdd.kind # "asserted"
  /\ lastAdd.kind = "placed" => LastQuads = LayoutOf(Substituted(LastCall))

C5_Witness ==
  /\ lastAdd.kind = "placed"
  /\ Len(LastCall.s) = 3
  /\ Missing(LastCall, 2)
  /\ ~Missing(LastCall, 3)
  /\ IsFinite(lastAdd.scale)
  /\ LastQuads[2].halfSize = <<FZero, FZero>>

FiniteQuad(g) ==
  /\ IsFinite(g.center[1])
  /\ IsFinite(g.center[2])
  /\ IsFinite(g.halfSize[1])
  /\ IsFinite(g.halfSize[2])

\* C6: for a text of one character the scale is computed without a
\* division by zero: the scale and the quad of the call are finite numbers
\* (a division of a box side by zero is infinite or not a number).
C6_SingleCharacterScale ==
  (lastAdd.kind = "placed" /\ Len(LastCall.s) = 1)
    => /\ IsFinite(lastAdd.scale)
       /\ \A i \in 1..Len(LastQuads) : FiniteQuad(LastQuads[i])

\* The glyph record addText uses for the character i of r.
GlyphOf(r, i) == getGlyphs(r.glyphSet)[IF Missing(r, i) THEN kSpace ELSE r.s[i]]

\* The advances of the characters before the last one.
RECURSIVE TotalWidth(_, _)
TotalWidth(r, i) ==
  IF i >= Len(r.s) THEN FZero ELSE FAdd(GlyphOf(r, i).m_advance, TotalWidth(r, i + 1))

\* The largest center.y + halfSize.y of the characters from i on.
RECURSIVE MaxHeight(_, _)
MaxHeight(r, i) ==
  IF i > Len(r.s) THEN FZero
  ELSE FMax(FAdd(GlyphOf(r, i).m_offset[2], GlyphOf(r, i).m_size[2]), MaxHeight(r, i + 1))

\* C7: for a text of two characters or more the scale of the call is
\* min(box width / total width, box height / max height), the total width
\* being the advances of all characters but the last and the max height the
\* largest vertical extent of the characters of the call.
C7_ScaleFormula ==
  (lastAdd.kind = "placed" /\ Len(LastCall.s) >= 2)
    => lastAdd.scale = FMin(FDiv(LastCall.size[1], TotalWidth(LastCall, 1)),
                            FDiv(LastCall.size[2], MaxHeight(LastCall, 1)))


-----------------------------------------------------------------------------
(* Properties of the atlas packer.                                          *)

\* The rectangle of the glyph i: m_posInAtlas and m_pixelSize, the border
\* being part of the pixel size.
Left(p, i) == p.pos[i][1]
Top(p, i) == p.pos[i][2]
Right(p, i) == p.pos[i][1] + p.cells[i][1]
Bottom(p, i) == p.pos[i][2] + p.cells[i][2]

Disjoint(p, i, j) ==
  \/ Right(p, i) <= Left(p, j)
  \/ Right(p, j) <= Left(p, i)
  \/ Bottom(p, i) <= Top(p, j)
  \/ Bottom(p, j) <= Top(p, i)

Inside(p, i) ==
  /\ Left(p, i) >= 0
  /\ Top(p, i) >= 0
  /\ Right(p, i) <= p.S
  /\ Bottom(p, i) <= p.S

IsPowerOfTwo(n) == \E k \in 0..16 : n = 2 ^ k

Scenario == pk.pc # "off" /\ pk.base = 64 /\ pk.cells = CellsOf(ScenarioContents)

C9_GrowthScenario ==
  /\ (Scenario /\ pk.pc = "failed") => pk.S = 64
  /\ (Scenario /\ pk.pc = "done")
       => /\ pk.S = 128
          /\ pk.attempts = <<64, 128>>
          /\ \A i \in 1..10 : pk.pos[i] = <<28 * ((i - 1) % 4), 28 * ((i - 1) \div 4)>>

C9_Witness ==
  /\ Scenario
  /\ pk.pc = "done"
  /\ pk.S = 128
  /\ Len(pk.pos) = 10

-----------------------------------------------------------------------------
(* Properties of the submission loop.                                       *)

\* The number of the ranges issued that hold the command index i.
Executions(i) ==
  Cardinality({k \in DOMAIN sub.ranges :
                 /\ sub.ranges[k].location <= i
                 /\ i < sub.ranges[k].location + sub.ranges[k].length})

\* The command indices next to the ends of the ranges.
EdgeIndices ==
  {i \in {q * kMaxCommands + d : q \in 0..(MaxFullChunks + 2), d \in {-1, 0, 1}}
           \cup {sub.indirectBufferSize - 1, sub.indirectBufferSize} : i >= 0}

Contiguous ==
  \A k \in DOMAIN sub.ranges :
    /\ sub.ranges[k].length >= 1
    /\ sub.ranges[k].length <= kMaxCommands
    /\ sub.ranges[k].location =
         (IF k = 1 THEN 0 ELSE sub.ranges[k - 1].location + sub.ranges[k - 1].length)

\* C10: the ranges handed to executeCommandsInBuffer hold kMaxCommands
\* commands at most, follow one another from 0 without a gap or an overlap
\* and end at indirectBufferSize, every command index being in one range
\* exactly, and the loop comes to its end.
C10_ChunkedSubmission ==
  /\ [](sub.pc \in {"loop", "done"} => Contiguous)
  /\ [](sub.pc = "done"
          => /\ sub.ranges # <<>>
             /\ sub.ranges[Len(sub.ranges)].location + sub.ranges[Len(sub.ranges)].length
                  = sub.indirectBufferSize
             /\ \A i \in EdgeIndices :
                  Executions(i) = (IF i < sub.indirectBufferSize THEN 1 ELSE 0))
  /\ (sub.pc = "loop") ~> (sub.pc = "done")

C10_Witness ==
  /\ sub.pc = "done"
  /\ sub.indirectBufferSize = 2 * kMaxCommands + 1
  /\ Len(sub.ranges) = 3
  /\ sub.ranges[3] = [location |-> 2 * kMaxCommands, length |-> 1]


-----------------------------------------------------------------------------
(* Properties of the frame.                                                 *)

\* The atlas rectangle and the colour of the quad of the character i of r.
ExpectedQuad(r, i) == MakeGlyph(r.glyphSet, GlyphOf(r, i), FZero, r.color)

\* C15: an addText with a text of n characters appends n quads, one for
\* each character in the order of the text, after the pending quads and
\* leaves the pending quads as they were; an addText with an empty text
\* changes neither the pending quads nor the running fingerprint.
C15_AddTextFrame ==
  [][(pc = "layouting" /\ pc' = "layouting" /\ calls' # calls)
       => IF calls'[Len(calls')].s = <<>>
          THEN UNCHANGED <<m_screenGlyphs, m_screenGlyphsHash>>
          ELSE /\ Len(m_screenGlyphs') = Len(m_screenGlyphs) + Len(calls'[Len(calls')].s)
               /\ SubSeq(m_screenGlyphs', 1, Len(m_screenGlyphs)) = m_screenGlyphs
               /\ \A i \in 1..Len(calls'[Len(calls')].s) :
                    /\ m_screenGlyphs'[Len(m_screenGlyphs) + i].uvCenter
                         = ExpectedQuad(calls'[Len(calls')], i).uvCenter
                    /\ m_screenGlyphs'[Len(m_screenGlyphs) + i].uvHalfSize
                         = ExpectedQuad(calls'[Len(calls')], i).uvHalfSize
                    /\ m_screenGlyphs'[Len(m_screenGlyphs) + i].color
                         = calls'[Len(calls')].color]_vars

C15_Witness ==
  /\ pc = "layouting"
  /\ Len(calls) = 2
  /\ lastAdd.kind = "placed"
  /\ lastAdd.startIndex = 2
  /\ Len(m_screenGlyphs) = 4
  /\ IsFinite(lastAdd.scale)
  /\ m_screenGlyphs[3].uvCenter # m_screenGlyphs[4].uvCenter

\* The hashed parameters of the requests of a pass that have a text.
Contents(cs) == [i \in DOMAIN SelectSeq(cs, LAMBDA c : c.s # <<>>) |->
                   Content(SelectSeq(cs, LAMBDA c : c.s # <<>>)[i])]

\* No two passes of different hashed parameters share a fingerprint.
NoCollision ==
  Contents(calls) # Contents(prevCalls) => m_screenGlyphsHash # m_prevScreenGlyphsHash

\* C16: after every endLayouting, a skipped one too, the pending quads are
\* no more than the capacity of the instance buffer and the first records
\* of the buffer are the pending quads, whatever glyph set each addText was
\* given, provided the fingerprint has no collision.
C16_BufferMatchesQuads ==
  (pc = "ended" /\ NoCollision)
    => /\ Len(m_screenGlyphs) <= m_glyphBufferSize
       /\ Len(m_glyphBuffer) >= Len(m_screenGlyphs)
       /\ SubSeq(m_glyphBuffer, 1, Len(m_screenGlyphs)) = m_screenGlyphs

-----------------------------------------------------------------------------
(* Properties of the texture generation.                                    *)

\* The call has returned a texture.
Returned(kind) == gen.pc = "returned" /\ gen.returned = kind

\* The glyphs of the set that have lines.
WithLines(glyphs) == {g \in DOMAIN glyphs : glyphs[g].lines # 0}

\* C11: when no glyph of the set has a segment, generate creates no
\* accumulator buffer, encodes no indirect command, dispatches no pass, and
\* returns a 1x1 texture whose single value is 0.
C11_ZeroContentDefault ==
  (gen.pc # "off" /\ gen.returned # "nullptr" /\ WithLines(gen.glyphs) = {}) =>
    /\ gen.outMinDistance = <<>>
    /\ gen.outIntersectionNumber = <<>>
    /\ gen.items = <<>>
    /\ gen.log = <<>>
    /\ gen.pc = "returned" => (gen.returned = "1x1" /\ gen.outputTexture = <<0>>)

C11_Witness ==
  /\ Returned("1x1")
  /\ DOMAIN gen.glyphs # {}
  /\ gen.outputTexture = <<0>>

\* The offsets of the pixels of the rectangle of a glyph.
RectOffsets(glyphData, atlasSize) ==
  {(glyphData.m_posInAtlas[2] + j) * atlasSize[1] + glyphData.m_posInAtlas[1] + i :
     i \in 0..(glyphData.m_pixelSize[1] - 1), j \in 0..(glyphData.m_pixelSize[2] - 1)}

\* The offsets of the pixels that no glyph with lines owns.
Unowned(glyphs, atlasSize) ==
  {p \in 0..(atlasSize[1] * atlasSize[2] - 1) :
     \A g \in WithLines(glyphs) : p \notin RectOffsets(glyphs[g], atlasSize)}

\* The accumulators of the pixels that no glyph with lines owns are the
\* initial ones.
UnownedInitial ==
  \A p \in Unowned(gen.glyphs, gen.atlasSize) :
    /\ gen.outMinDistance[p + 1] = kIntMax
    /\ gen.outIntersectionNumber[p + 1] = 0

\* The pixels that no glyph with lines owns hold the outside value.
UnownedOutside ==
  \A p \in Unowned(gen.glyphs, gen.atlasSize) :
    gen.outputTexture[p + 1] = SdfWriteTexture(kIntMax, 0)

\* C12: a pixel outside every glyph rectangle, and a pixel of a glyph with
\* no segment, keeps the accumulator pair (INT_MAX, 0) and is the outside
\* value 0 in the texture that generate returns.
C12_UnownedKeepDefault ==
  Returned("atlas") => (UnownedInitial /\ UnownedOutside /\ SdfWriteTexture(kIntMax, 0) = 0)

\* The same for the calls that have waited for the two passes.
AfterPassesUnownedDefault ==
  (Returned("atlas") /\ gen.log # <<>>) =>
    (UnownedInitial /\ UnownedOutside /\ SdfWriteTexture(kIntMax, 0) = 0)

AfterPassesWitness ==
  /\ Returned("atlas")
  /\ gen.log # <<>>
  /\ \E g \in DOMAIN gen.glyphs :
       /\ gen.glyphs[g].lines = 0
       /\ RectOffsets(gen.glyphs[g], gen.atlasSize) # {}
  /\ \E p \in DOMAIN gen.outMinDistance : gen.outMinDistance[p] # kIntMax

\* The indirect command buffer is filled.
ItemsBuilt == gen.pc \in {"submit", "dispatched"} \/ (Returned("atlas") /\ gen.log # <<>>)

\* The rectangles of the glyphs are inside the atlas and pairwise disjoint.
RectanglesApart(glyphs, atlasSize) ==
  /\ \A g \in DOMAIN glyphs :
       /\ glyphs[g].m_posInAtlas[1] + glyphs[g].m_pixelSize[1] <= atlasSize[1]
       /\ glyphs[g].m_posInAtlas[2] + glyphs[g].m_pixelSize[2] <= atlasSize[2]
  /\ \A g, h \in DOMAIN glyphs :
       g # h => RectOffsets(glyphs[g], atlasSize) \cap RectOffsets(glyphs[h], atlasSize) = {}

\* The pixels of the glyphs with lines: the glyph and the pixel in it.
OwnedPixels(glyphs) ==
  {<<g, i, j>> \in WithLines(glyphs) \X (0..GenAtlasSide) \X (0..GenAtlasSide) :
     i < glyphs[g].m_pixelSize[1] /\ j < glyphs[g].m_pixelSize[2]}

\* The work item n is the one of the pixel (i, j) of the glyph g.
ItemOf(n, g, i, j) ==
  /\ gen.items[n].glyph = g
  /\ gen.items[n].pointPos = <<F(2 * i + 1, 2), F(2 * j + 1, 2)>>
  /\ gen.items[n].offset =
       (gen.glyphs[g].m_posInAtlas[2] + j) * gen.atlasSize[1] + gen.glyphs[g].m_posInAtlas[1] + i
  /\ gen.items[n].linesCount = gen.glyphs[g].lines
  /\ gen.items[n].lineBufferOffset = gen.lineOffsets[g]

\* C14: with rectangles disjoint and inside the atlas, the work items are
\* one to one with the pixels of the glyphs that have segments, each at the
\* absolute offset of its pixel, no two at the same offset, each with the
\* segment range of its glyph, the ranges of two glyphs disjoint; the slots
\* written by the first pass are those of the work items, each holding the
\* result of its own item.
C14_RaceFreeScatter ==
  (ItemsBuilt /\ RectanglesApart(gen.glyphs, gen.atlasSize)) =>
    /\ Len(gen.items) = Cardinality(OwnedPixels(gen.glyphs))
    /\ \A o \in OwnedPixels(gen.glyphs) :
         \E n \in DOMAIN gen.items :
           /\ ItemOf(n, o[1], o[2], o[3])
           /\ \A m \in DOMAIN gen.items : ItemOf(m, o[1], o[2], o[3]) => m = n
    /\ \A n, m \in DOMAIN gen.items :
         n # m => gen.items[n].offset # gen.items[m].offset
    /\ \A g \in WithLines(gen.glyphs) :
         gen.lineOffsets[g] + gen.glyphs[g].lines <= gen.linesBufferSize
    /\ \A g, h \in WithLines(gen.glyphs) :
         g # h => \/ gen.lineOffsets[g] + gen.glyphs[g].lines <= gen.lineOffsets[h]
                  \/ gen.lineOffsets[h] + gen.glyphs[h].lines <= gen.lineOffsets[g]
    /\ gen.pc = "returned" =>
         /\ \A n \in DOMAIN gen.items :
              /\ gen.outMinDistance[gen.items[n].offset + 1] =
                   MinOverLines(gen.items[n], 0, kIntMax)
              /\ gen.outIntersectionNumber[gen.items[n].offset + 1] =
                   SumOverLines(gen.items[n], 0)
         /\ \A p \in DOMAIN gen.outMinDistance :
              gen.outMinDistance[p] # kIntMax =>
                \E n \in DOMAIN gen.items : gen.items[n].offset + 1 = p

C14_Witness ==
  /\ Returned("atlas")
  /\ Cardinality(WithLines(gen.glyphs)) = 3
  /\ Len(gen.items) = 8
  /\ gen.order = <<99, 97, 98>>
  /\ gen.items[1].offset = 12
  /\ gen.items[1].lineBufferOffset = 0
  /\ gen.items[4].lineBufferOffset = 2

\* C18: whenever generate returns the atlas-sized texture, the second pass
\* was dispatched after every submission of the first pass, then the encoder
\* ended, the command buffer committed and waited on, before the return.
C18_ReturnedTextureWritten ==
  Returned("atlas") =>
    /\ Len(gen.log) >= 4
    /\ \A e \in 1..(Len(gen.log) - 4) : gen.log[e].call = "executeCommandsInBuffer"
    /\ gen.log[Len(gen.log) - 3].call = "dispatchThreads"
    /\ gen.log[Len(gen.log) - 2].call = "endEncoding"
    /\ gen.log[Len(gen.log) - 1].call = "commit"
    /\ gen.log[Len(gen.log)].call = "waitUntilCompleted"

\* C13: whatever the order in which the workers combine their results, the
\* minimum distance at the end is the minimum over all segments, starting
\* from INT_MAX, and the parity of the count is the parity of the number of
\* segments crossed.
C13_ReductionOrderFree ==
  (red.pc = "reduce" /\ red.pending = {}) =>
    /\ \A s \in DOMAIN red.segments : red.outMinDistance <= red.segments[s].distance
    /\ \E s \in DOMAIN red.segments : red.outMinDistance = red.segments[s].distance
    /\ red.outIntersectionNumber % 2 =
         Cardinality({s \in DOMAIN red.segments : red.segments[s].crossing = 1}) % 2

C13_Witness ==
  /\ red.pc = "reduce"
  /\ red.pending = {}
  /\ Len(red.segments) = 3
  /\ red.segments[1].distance = 2
  /\ red.segments[2].distance = 1
  /\ red.segments[3].distance = 3
  /\ red.outMinDistance = 1
  /\ red.outIntersectionNumber = 2

\* The group size of a dispatch is at least 1 and at most the maximum of
\* the pipeline.
ThreadsInGroupBounded ==
  red.pc = "threads" =>
    (1 <= red.threadsInGroup /\ red.threadsInGroup <= red.maxThreadsInGroup)

\* C17: for n >= 1 segments and a SIMD width w >= 1, threadsCount =
\* max(nextPowerOf2(n / 2), w) has 2 * threadsCount >= n, and threadsInGroup
\* is at least 1 and at most maxThreadsInGroup.
C17_ThreadsCoverSegments ==
  red.pc = "threads" =>
    /\ 2 * red.threadsCount >= red.lines
    /\ 1 <= red.threadsInGroup
    /\ red.threadsInGroup <= red.maxThreadsInGroup

\* A dispatch on a device of execution width 32 that leaves a segment out.
SegmentLeftOut ==
  /\ red.pc = "threads"
  /\ red.lines = 65
  /\ red.simdGroupSize = 32
  /\ red.maxThreadsInGroup = 1024
  /\ 2 * red.threadsCount = 64

=============================================================================
